---- MODULE Spec2Model ----
(***************************************************************************)
(* Model of src/get_data.py: the OAuth token lifecycle of SpotifyScraper   *)
(* (renewal, interactive login, freshness check, persistence to '.env')    *)
(* and the cursor-paginated history loop of main() with its two sinks      *)
(* (resultado.json and the S3 bucket).                                     *)
(*                                                                         *)
(* The program is single threaded; pc is the position of the one process.  *)
(* Time is wall-clock time in whole seconds; the sub-second part of        *)
(* datetime.now() is a nondeterministic flag where the code reads it.      *)
(***************************************************************************)
EXTENDS Integers, Sequences, FiniteSets, TLC

VARIABLES
    pc,            \* position of the process
    now,           \* wall clock, whole seconds
    config,        \* self.config['SPOTIFY'] in memory
    env_file,      \* the '.env' file on disk (SPOTIFY token keys)
    next_page,     \* main(): next_page
    before,        \* get_tracks_history(): local `before` (unix_date, then the next cursor)
    access_token,  \* get_tracks_history(): local access_token (the bearer)
    renewed,       \* get_access_token(): what renew_access_token returned
    data,          \* get_tracks_history(): local data (the page's items)
    resultado,     \* content of resultado.json (None until first written)
    s3,            \* put_object calls that succeeded, in order: [Key, Body]
    io,            \* external interactions issued, in order
    check,         \* last _verify_valid_token evaluation: [age, frac, result]
    ret,           \* last value returned by get_tracks_history
    fault,         \* the unhandled exception that ended the run, or None
    entropy,       \* state of the random source behind secrets.token_bytes
    code_verifier, \* _new_login(): local code_verifier
    raw_item,      \* get_data(): its argument data
    output_data    \* get_data(): what it returned or raised

login_vars == <<entropy, code_verifier>>
item_vars == <<raw_item, output_data>>

vars == <<pc, now, config, env_file, next_page, before, access_token,
          renewed, data, resultado, s3, io, check, ret, fault,
          login_vars, item_vars>>

None == "None"

\* ---------------------------------------------------------------- bounds
MaxPages == 2        \* history pages with items the API serves in one run
MaxItems == 2        \* items on one page
StartTime == 10000   \* wall clock (seconds) when main() starts
MaxAge == 3700       \* largest token age (seconds) the freshness check is tried on
MaxSeed == 63        \* states of the random source _new_login is tried on
MaxImages == 3       \* album images of one raw item
MaxArtists == 2      \* album artists of one raw item

\* ------------------------------------------------------ program constants
TokenMinutes == 60   \* _verify_valid_token: minutes a token counts as valid
\* main() without the sleep of line 241
SleepSeconds_none == 2 - 2
SleepSeconds == 2    \* main(): sleep(2)
HTTP_OK == 200       \* status compared in _new_login / renew_access_token
TokenBytes == 32     \* _new_login: secrets.token_bytes(32)
DigestBytes == 32    \* length of a SHA-256 digest

\* ------------------------------------------------------------ input sets
\* elapsed seconds since last_date_token when the process starts
InitAges == {0, 3600, 3601, 3630, 3631}
\* seconds a token request may take
Latency == {0, 1}
\* extra seconds sleep() may take beyond its argument
LongDelay == 3599
Oversleep == {0, LongDelay}
\* cursors.before values of a page with items: strings of decimal digits
CursorStrings == {<<0>>, <<1>>, <<9, 9, 9, 9, 0, 0, 0>>}

\* A context that may be null is a record with the flag is_none; the other
\* fields of a null are empty.
JsonNull == [is_none |-> TRUE, type |-> "",
             external_urls |-> [spotify |-> ""]]

\* playback contexts of a raw item: none, a playlist, an album
Contexts ==
    {JsonNull,
     [is_none |-> FALSE, type |-> "playlist",
      external_urls |-> [spotify |-> "https://open.spotify.com/playlist/p1"]],
     [is_none |-> FALSE, type |-> "album",
      external_urls |-> [spotify |-> "https://open.spotify.com/album/b1"]]}

Images(n) == [i \in 1..n |-> [url |-> "image" \o ToString(i)]]
Artists(n) ==
    [i \in 1..n |-> [id |-> "artist" \o ToString(i),
                     name |-> "Artist " \o ToString(i)]]

\* raw items of the history API, as get_data reads them
RawItems ==
    {[track |-> [album |-> [id |-> "b1", name |-> "Album",
                            release_date |-> "2020-01-31",
                            total_tracks |-> 12, album_type |-> "album",
                            images |-> Images(ni),
                            artists |-> Artists(na)],
                 duration_ms |-> 215000, explicit |-> ex, id |-> "t1",
                 is_local |-> loc, name |-> "Track", popularity |-> pop],
      played_at |-> "2024-05-01T10:00:00.000Z",
      context |-> ctx] :
        ni \in 0..MaxImages, na \in 0..MaxArtists, ex \in BOOLEAN,
        loc \in BOOLEAN, pop \in {0, 100}, ctx \in Contexts}

\* ------------------------------------------------------- pure functions

\* Python round(): nearest integer, ties to the even one. The argument is
\* (secs + sub-second part) / 60 with frac = 1 iff the sub-second part is > 0.
round_minutes(secs, frac) ==
    LET q == secs \div 60
        r == secs % 60
    IN  IF r < 30 THEN q
        ELSE IF r > 30 THEN q + 1
        ELSE IF frac = 1 THEN q + 1
        ELSE IF q % 2 = 0 THEN q ELSE q + 1

\* _verify_valid_token: last is the parsed last_date_token (whole seconds),
\* t and frac are datetime.now().
verify_valid_token(last, t, frac) ==
    LET time_active_token_in_minutes == round_minutes(t - last, frac)
    IN  IF time_active_token_in_minutes > TokenMinutes THEN FALSE ELSE TRUE

\* Python truthiness: `not access_token` (a string or None), line 84
FalsyToken(v) == v = None \/ v = ""

\* Python truthiness: `while next_page` (an integer), line 239
FalsyInt(v) == v = 0

\* int() of a string of decimal digits, line 166
RECURSIVE int_of(_)
int_of(digits) ==
    IF digits = <<>> THEN 0
    ELSE 10 * int_of(SubSeq(digits, 1, Len(digits) - 1)) + digits[Len(digits)]

\* json.dump(data, f, indent=4) / json.dumps(data, indent=4): the text.
json_dumps(value) == [indent |-> 4, json |-> value]

\* resultado.json before its first write
NoFile == [indent |-> 0, json |-> <<>>]

\* strftime('%Y%m%d_%H%M%S') inside f'tracks_history_{timestamp}.json'
s3_filename(t) == <<"tracks_history_", t, ".json">>

\* -------------------------------------------------------------- PKCE
\* Strings are sequences of character codes, bytes sequences of 0..255;
\* .decode('utf-8') and .encode() of ASCII text keep the codes.

\* secrets.token_bytes(32): the bytes the random source yields in state e
token_bytes(e) == [i \in 1..TokenBytes |-> (e * (2 * i + 1) + 7 * i) % 256]

\* hashlib.sha256(...).digest(): a fixed function from byte strings to
\* digests of DigestBytes bytes (a small mixing function stands for SHA-256)
RECURSIVE mix(_)
mix(bytes) ==
    IF bytes = <<>> THEN 17
    ELSE (31 * mix(SubSeq(bytes, 1, Len(bytes) - 1)) + bytes[Len(bytes)] + 1)
            % 65521

sha256(bytes) ==
    LET h == mix(bytes)
    IN  [i \in 1..DigestBytes |-> (h * i + (h \div 256) + i * i) % 256]

\* the character of the URL-safe base64 alphabet for the 6-bit value v
b64url_char(v) ==
    IF v < 26 THEN 65 + v                 \* A-Z
    ELSE IF v < 52 THEN 97 + (v - 26)     \* a-z
    ELSE IF v < 62 THEN 48 + (v - 52)     \* 0-9
    ELSE IF v = 62 THEN 45                \* -
    ELSE 95                               \* _

\* base64.urlsafe_b64encode: 3 bytes give 4 characters, a last group of
\* 1 or 2 bytes is padded with '=' (61)
RECURSIVE urlsafe_b64encode(_)
urlsafe_b64encode(bytes) ==
    IF bytes = <<>> THEN <<>>
    ELSE IF Len(bytes) = 1
    THEN LET n == bytes[1] * 65536
         IN  <<b64url_char(n \div 262144), b64url_char((n \div 4096) % 64),
               61, 61>>
    ELSE IF Len(bytes) = 2
    THEN LET n == bytes[1] * 65536 + bytes[2] * 256
         IN  <<b64url_char(n \div 262144), b64url_char((n \div 4096) % 64),
               b64url_char((n \div 64) % 64), 61>>
    ELSE LET n == bytes[1] * 65536 + bytes[2] * 256 + bytes[3]
         IN  <<b64url_char(n \div 262144), b64url_char((n \div 4096) % 64),
               b64url_char((n \div 64) % 64), b64url_char(n % 64)>>
             \o urlsafe_b64encode(SubSeq(bytes, 4, Len(bytes)))

\* str.rstrip('=')
RECURSIVE rstrip_eq(_)
rstrip_eq(str) ==
    IF str # <<>> /\ str[Len(str)] = 61
    THEN rstrip_eq(SubSeq(str, 1, Len(str) - 1))
    ELSE str

\* _new_login, lines 37-39
new_code_verifier(e) == rstrip_eq(urlsafe_b64encode(sha256(token_bytes(e))))

\* _new_login with the padding left on the challenge
code_challenge_padded(verifier) == urlsafe_b64encode(sha256(verifier))

\* _new_login, lines 41-43
code_challenge(verifier) == rstrip_eq(urlsafe_b64encode(sha256(verifier)))

\* The verifier and the challenge _new_login computes in each state of the
\* random source, tabulated once.
Verifiers == [e \in 0..MaxSeed |-> new_code_verifier(e)]
Challenges == [e \in 0..MaxSeed |-> code_challenge(Verifiers[e])]

\* _new_login, lines 48-55: the parameters of the authorization URL
auth_params(challenge) ==
    [response_type |-> "code", scope |-> "user-read-recently-played",
     code_challenge |-> challenge, code_challenge_method |-> "S256"]

\* _new_login, lines 62-68: the form of the exchange POST
exchange_data(verifier) ==
    [grant_type |-> "authorization_code", code_verifier |-> verifier]

\* _update_token: the outcome of storing a token pair at time t.
\* configparser refuses a value that is not a string (None) with TypeError;
\* by then line 27 has already set access_token in memory.
\* _update_token that skips a refresh token it cannot store and writes the
\* rest
update_token_partial(cfg, file, a, r, t) ==
    LET c == [access_token    |-> a,
              refresh_token   |-> IF r = None THEN cfg.refresh_token ELSE r,
              last_date_token |-> t]
    IN  [config |-> c, env_file |-> c, fault |-> None]

update_token(cfg, file, a, r, t) ==
    IF r = None
    THEN [config   |-> [cfg EXCEPT !.access_token = a],
          env_file |-> file,
          fault    |-> "TypeError"]
    ELSE LET c == [access_token    |-> a,
                   refresh_token   |-> r,
                   last_date_token |-> t]
         IN  [config |-> c, env_file |-> c, fault |-> None]

\* renew_access_token without the status test of line 111
renew_access_token_unchecked(cfg, file, resp, t) ==
    IF resp.refresh_token = None
    THEN [ret |-> None, config |-> cfg, env_file |-> file,
          fault |-> "KeyError"]
    ELSE LET u == update_token(cfg, file, resp.access_token,
                               resp.refresh_token, t)
         IN  [ret |-> resp.access_token, config |-> u.config,
              env_file |-> u.env_file, fault |-> u.fault]

\* renew_access_token, lines 111-120, on the response resp received at t
renew_access_token(cfg, file, resp, t) ==
    IF resp.status = HTTP_OK
    THEN IF resp.refresh_token = None
         THEN \* line 114: KeyError
              [ret |-> None, config |-> cfg, env_file |-> file,
               fault |-> "KeyError"]
         ELSE LET u == update_token(cfg, file, resp.access_token,
                                    resp.refresh_token, t)
              IN  [ret |-> resp.access_token, config |-> u.config,
                   env_file |-> u.env_file, fault |-> u.fault]
    ELSE [ret |-> None, config |-> cfg, env_file |-> file, fault |-> None]

\* _new_login without the raise of line 72: a failed exchange returns None
new_login_no_raise(cfg, file, resp, t) ==
    IF resp.status # HTTP_OK
    THEN [ret |-> None, config |-> cfg, env_file |-> file, fault |-> None]
    ELSE LET u == update_token(cfg, file, resp.access_token,
                               resp.refresh_token, t)
         IN  [ret |-> IF u.fault = None THEN resp.access_token ELSE None,
              config |-> u.config, env_file |-> u.env_file,
              fault |-> u.fault]

\* _new_login, lines 71-78, on the response resp received at t
new_login(cfg, file, resp, t) ==
    IF resp.status # HTTP_OK
    THEN [ret |-> None, config |-> cfg, env_file |-> file,
          fault |-> "Exception"]
    ELSE LET u == update_token(cfg, file, resp.access_token,
                               resp.refresh_token, t)
         IN  [ret |-> IF u.fault = None THEN resp.access_token ELSE None,
              config |-> u.config, env_file |-> u.env_file,
              fault |-> u.fault]

\* get_tracks_history without line 166: the request's cursor is returned
get_tracks_history_keeps_before(resp, bef, dat, file) ==
    IF ~resp.has_items
    THEN [fault |-> "KeyError", returns |-> FALSE, ret |-> 0, before |-> bef,
          data |-> dat, resultado |-> file]
    ELSE IF Len(resp.items) = 0
    THEN [fault |-> None, returns |-> TRUE, ret |-> 0, before |-> bef,
          data |-> dat, resultado |-> file]
    ELSE [fault |-> None, returns |-> FALSE, ret |-> 0, before |-> bef,
          data |-> resp.items, resultado |-> json_dumps(resp.items)]

\* get_tracks_history with the file written before the test of line 163
get_tracks_history_writes_first(resp, bef, dat, file) ==
    IF ~resp.has_items
    THEN [fault |-> "KeyError", returns |-> FALSE, ret |-> 0, before |-> bef,
          data |-> dat, resultado |-> file]
    ELSE IF Len(resp.items) = 0
    THEN [fault |-> None, returns |-> TRUE, ret |-> 0, before |-> bef,
          data |-> resp.items, resultado |-> json_dumps(resp.items)]
    ELSE IF ~resp.has_cursor
    THEN [fault |-> "TypeError", returns |-> FALSE, ret |-> 0, before |-> bef,
          data |-> dat, resultado |-> file]
    ELSE [fault |-> None, returns |-> FALSE, ret |-> 0,
          before |-> int_of(resp.cursor), data |-> resp.items,
          resultado |-> json_dumps(resp.items)]

\* get_tracks_history, lines 163-171, on the response resp: what is
\* returned at once (returns), the new `before` and `data`, the content of
\* resultado.json, and whether save_to_s3 is called next
get_tracks_history(resp, bef, dat, file) ==
    IF ~resp.has_items
    THEN \* line 163: KeyError
         [fault |-> "KeyError", returns |-> FALSE, ret |-> 0, before |-> bef,
          data |-> dat, resultado |-> file]
    ELSE IF Len(resp.items) = 0
    THEN [fault |-> None, returns |-> TRUE, ret |-> 0, before |-> bef,
          data |-> dat, resultado |-> file]
    ELSE IF ~resp.has_cursor
    THEN \* line 166: TypeError
         [fault |-> "TypeError", returns |-> FALSE, ret |-> 0, before |-> bef,
          data |-> dat, resultado |-> file]
    ELSE [fault |-> None, returns |-> FALSE, ret |-> 0,
          before |-> int_of(resp.cursor), data |-> resp.items,
          resultado |-> json_dumps(resp.items)]

\* save_to_s3, lines 187-197: the object put at time t
save_to_s3(dat, t) == [Key |-> s3_filename(t), Body |-> json_dumps(dat)]

\* ------------------------------------------------------------ get_data
\* seq[k] of Python, k counted from 0; IndexError past the end
InRange(seq, k) == k + 1 <= Len(seq)
Index(seq, k) == seq[k + 1]

context_type_empty(context) == context.type

\* get_data, lines 221-222
context_type(context) ==
    IF ~context.is_none THEN context.type ELSE "null"

\* get_data, lines 223-224
context_playlist_url(context) ==
    IF ~context.is_none THEN context.external_urls.spotify ELSE "null"

\* get_data, lines 203-227: the flat record, or the IndexError of
\* images[1] (line 211) or artists[0] (lines 212-213)
get_data(item) ==
    LET album_data == item.track.album
    IN  IF ~InRange(album_data.images, 1) \/ ~InRange(album_data.artists, 0)
        THEN [fault |-> "IndexError", value |-> [null |-> TRUE]]
        ELSE [fault |-> None,
              value |->
                [id_album |-> album_data.id,
                 name_album |-> album_data.name,
                 release_date |-> album_data.release_date,
                 total_tracks |-> album_data.total_tracks,
                 album_type |-> album_data.album_type,
                 image_album |-> Index(album_data.images, 1).url,
                 artist_album_id |-> Index(album_data.artists, 0).id,
                 artist_album_name |-> Index(album_data.artists, 0).name,
                 duration_ms |-> item.track.duration_ms,
                 explicit |-> item.track.explicit,
                 track_id |-> item.track.id,
                 is_local |-> item.track.is_local,
                 track_name |-> item.track.name,
                 popularity |-> item.track.popularity,
                 played_at |-> item.played_at,
                 type |-> context_type(item.context),
                 playlist_url |-> context_playlist_url(item.context)]]

\* ------------------------------------------------------------ responses
\* One external interaction: its kind, what it carries (the refresh token,
\* the bearer, the parameters of the authorization URL or the form of the
\* exchange), the `before` parameter, the time the answer arrived and the
\* answer.
Event(kind, cred, bef, t, resp) ==
    [kind |-> kind, cred |-> cred, before |-> bef, at |-> t, resp |-> resp]

NoResp == [status |-> 0]

Count(kinds) == Cardinality({i \in DOMAIN io : io[i].kind \in kinds})

\* The token endpoint issues a new token pair with each answer; the k-th
\* token request of the run is answered with the pair (Ak, Rk), with Ak
\* alone (no refresh_token field), or with a non-200 status.
TokenResponses ==
    LET k == ToString(Count({"refresh", "exchange"}) + 1)
    IN  [status : {HTTP_OK}, access_token : {"A" \o k},
         refresh_token : {"R" \o k, None}]
        \cup [status : {400}, access_token : {None}, refresh_token : {None}]

\* The n-th history request of the run is answered with a page of 0 to
\* MaxItems play events <<n, j>> (play events are distinct), or an error.
\* has_items = FALSE is a body without an 'items' key (an error body);
\* has_cursor = FALSE is a body with "cursors": null.  A non-200 answer
\* carries an error body, or a body of the page shape (empty, or one item
\* and a cursor).
Page(n, len) == [j \in 1..len |-> <<n, j>>]

HistoryResponses ==
    LET n == Count({"history"}) + 1
    IN  [status : {HTTP_OK}, has_items : {TRUE}, items : {Page(n, 0)},
         has_cursor : {FALSE}, cursor : {<<>>}]
        \cup [status : {HTTP_OK}, has_items : {TRUE},
              items : {Page(n, len) : len \in 1..MaxItems},
              has_cursor : {TRUE}, cursor : CursorStrings]
        \cup [status : {HTTP_OK}, has_items : {TRUE},
              items : {Page(n, len) : len \in 1..MaxItems},
              has_cursor : {FALSE}, cursor : {<<>>}]
        \cup [status : {429}, has_items : {FALSE}, items : {<<>>},
              has_cursor : {FALSE}, cursor : {<<>>}]
        \cup [status : {429}, has_items : {TRUE}, items : {Page(n, 0)},
              has_cursor : {FALSE}, cursor : {<<>>}]
        \cup [status : {429}, has_items : {TRUE}, items : {Page(n, 1)},
              has_cursor : {TRUE}, cursor : {<<1>>}]

\* history requests answered with a page that has items
PagesServed ==
    Cardinality({i \in DOMAIN io : io[i].kind = "history"
                                    /\ io[i].resp.has_items
                                    /\ Len(io[i].resp.items) > 0})

\* ------------------------------------------------------------------ Init
InitConfig(age) ==
    [access_token |-> "A0", refresh_token |-> "R0",
     last_date_token |-> StartTime - age]

\* get_data() has not been called
NoItem == [null |-> TRUE]
NoOutput == [fault |-> None, value |-> [null |-> TRUE]]

NoCheck == [valid |-> FALSE, age |-> 0, frac |-> 0, result |-> FALSE]

InitRest ==
    /\ now = StartTime
    /\ env_file = config
    /\ next_page = 0
    /\ before = 0
    /\ access_token = None
    /\ renewed = None
    /\ data = <<>>
    /\ resultado = NoFile
    /\ s3 = <<>>
    /\ io = <<>>
    /\ check = NoCheck
    /\ ret = 0
    /\ fault = None
    /\ code_verifier = <<>>
    /\ output_data = NoOutput

\* The whole program is run from one state of the random source; SpecLogin
\* runs _new_login from each of them.
Init ==
    /\ pc = "start"
    /\ entropy = 0
    /\ \E age \in InitAges : config = InitConfig(age)
    /\ raw_item = NoItem
    /\ InitRest

Raise(exc) ==
    /\ pc' = "fault"
    /\ fault' = exc

\* --------------------------------------------------------------- actions

\* main(), lines 232-237
MainStart ==
    /\ pc = "start"
    /\ UNCHANGED <<login_vars, item_vars>>
    /\ next_page' = now * 1000
    /\ pc' = "while"
    /\ UNCHANGED <<now, config, env_file, before, access_token, renewed,
                   data, resultado, s3, io, check, ret, fault>>

\* main(), lines 239-240: the loop test is true; get_tracks_history is
\* called (line 145: before = unix_date)
MainLoopEnter ==
    /\ pc = "while"
    /\ UNCHANGED <<login_vars, item_vars>>
    /\ ~FalsyInt(next_page)
    /\ before' = next_page
    /\ pc' = "verify"
    /\ UNCHANGED <<now, config, env_file, next_page, access_token, renewed,
                   data, resultado, s3, io, check, ret, fault>>

\* main(), line 239: the loop test is false; main returns
MainLoopExit ==
    /\ pc = "while"
    /\ UNCHANGED <<login_vars, item_vars>>
    /\ FalsyInt(next_page)
    /\ pc' = "done"
    /\ UNCHANGED <<now, config, env_file, next_page, before, access_token,
                   renewed, data, resultado, s3, io, check, ret, fault>>

\* VerifyToken with the result of the check ignored: always renews
VerifyToken_always_renews ==
    /\ pc = "verify"
    /\ UNCHANGED <<login_vars, item_vars>>
    /\ \E frac \in {0, 1} :
         check' = [valid |-> TRUE, age |-> now - config.last_date_token,
                   frac |-> frac,
                   result |-> verify_valid_token(config.last_date_token,
                                                 now, frac)]
    /\ pc' = "renew"
    /\ UNCHANGED <<now, config, env_file, next_page, before, access_token,
                   renewed, data, resultado, s3, io, ret, fault>>

\* get_tracks_history, lines 147-150 up to the call of get_access_token
VerifyToken ==
    /\ pc = "verify"
    /\ UNCHANGED <<login_vars, item_vars>>
    /\ \E frac \in {0, 1} :
         LET fresh == verify_valid_token(config.last_date_token, now, frac)
         IN  /\ check' = [valid |-> TRUE,
                          age |-> now - config.last_date_token,
                          frac |-> frac, result |-> fresh]
             /\ IF fresh
                THEN /\ access_token' = config.access_token
                     /\ pc' = "get"
                ELSE /\ access_token' = access_token
                     /\ pc' = "renew"
    /\ UNCHANGED <<now, config, env_file, next_page, before, renewed, data,
                   resultado, s3, io, ret, fault>>

\* get_access_token, lines 82-87, with its call of renew_access_token
RenewAccessToken ==
    /\ pc = "renew"
    /\ UNCHANGED <<login_vars, item_vars>>
    /\ \E resp \in TokenResponses, d \in Latency :
         LET r == renew_access_token(config, env_file, resp, now + d)
         IN  /\ now' = now + d
             /\ io' = Append(io, Event("refresh", config.refresh_token, 0,
                                       now + d, resp))
             /\ config' = r.config
             /\ env_file' = r.env_file
             /\ IF r.fault # None
                THEN /\ Raise(r.fault)
                     /\ UNCHANGED <<renewed, access_token>>
                ELSE /\ renewed' = r.ret
                     /\ fault' = fault
                     /\ IF FalsyToken(r.ret)
                        THEN pc' = "login" /\ access_token' = access_token
                        ELSE pc' = "get" /\ access_token' = r.ret
    /\ UNCHANGED <<next_page, before, data, resultado, s3, check, ret>>

\* _new_login, lines 37-59: the URL is printed, input() returns the code
NewLoginPrompt ==
    /\ pc = "login"
    /\ code_verifier' = Verifiers[entropy]
    /\ entropy' = entropy + 1
    /\ io' = Append(io, Event("authorize", auth_params(Challenges[entropy]),
                              0, now, NoResp))
    /\ pc' = "exchange"
    /\ UNCHANGED <<now, config, env_file, next_page, before, access_token,
                   renewed, data, resultado, s3, check, ret, fault,
                   item_vars>>

\* _new_login, lines 61-78, returning through get_access_token line 87
NewLoginExchange ==
    /\ pc = "exchange"
    /\ UNCHANGED <<login_vars, item_vars>>
    /\ \E resp \in TokenResponses, d \in Latency :
         LET r == new_login(config, env_file, resp, now + d)
         IN  /\ now' = now + d
             /\ io' = Append(io, Event("exchange", exchange_data(code_verifier),
                                       0, now + d, resp))
             /\ config' = r.config
             /\ env_file' = r.env_file
             /\ IF r.fault # None
                THEN Raise(r.fault) /\ access_token' = access_token
                ELSE /\ pc' = "get"
                     /\ access_token' = r.ret
                     /\ fault' = fault
    /\ UNCHANGED <<next_page, before, renewed, data, resultado, s3, check,
                   ret>>

\* get_tracks_history, lines 152-171: the GET, the empty-page return,
\* the next cursor and the local file
HistoryGet ==
    /\ pc = "get"
    /\ UNCHANGED <<login_vars, item_vars>>
    /\ \E resp \in HistoryResponses :
         LET h == get_tracks_history(resp, before, data, resultado)
         IN  /\ Len(resp.items) > 0 => PagesServed < MaxPages
             /\ io' = Append(io, Event("history", access_token, before,
                                       now, resp))
             /\ before' = h.before
             /\ data' = h.data
             /\ resultado' = h.resultado
             /\ IF h.fault # None
                THEN Raise(h.fault) /\ ret' = ret
                ELSE /\ fault' = fault
                     /\ IF h.returns
                        THEN pc' = "returned" /\ ret' = h.ret
                        ELSE pc' = "s3" /\ ret' = ret
    /\ UNCHANGED <<now, config, env_file, next_page, access_token, renewed,
                   s3, check>>

\* SaveToS3 with a failed put_object swallowed: the cursor is returned
SaveToS3_swallows ==
    /\ pc = "s3"
    /\ UNCHANGED <<login_vars, item_vars>>
    /\ \E ok \in BOOLEAN :
         /\ s3' = IF ok THEN Append(s3, save_to_s3(data, now)) ELSE s3
         /\ ret' = before
         /\ pc' = "returned"
         /\ fault' = fault
    /\ UNCHANGED <<now, config, env_file, next_page, before, access_token,
                   renewed, data, resultado, io, check>>

\* get_tracks_history, lines 173-175, with save_to_s3, lines 177-199
SaveToS3 ==
    /\ pc = "s3"
    /\ UNCHANGED <<login_vars, item_vars>>
    /\ \E ok \in BOOLEAN :
         IF ok
         THEN /\ s3' = Append(s3, save_to_s3(data, now))
              /\ ret' = before
              /\ pc' = "returned"
              /\ fault' = fault
         ELSE \* put_object raises
              /\ Raise("ClientError")
              /\ UNCHANGED <<s3, ret>>
    /\ UNCHANGED <<now, config, env_file, next_page, before, access_token,
                   renewed, data, resultado, io, check>>

\* main(), lines 240-241: next_page is assigned, then sleep(2)
MainSleep ==
    /\ pc = "returned"
    /\ UNCHANGED <<login_vars, item_vars>>
    /\ next_page' = ret
    /\ \E extra \in Oversleep : now' = now + SleepSeconds + extra
    /\ pc' = "while"
    /\ UNCHANGED <<config, env_file, before, access_token, renewed, data,
                   resultado, s3, io, check, ret, fault>>

Next ==
    \/ MainStart
    \/ MainLoopEnter
    \/ MainLoopExit
    \/ VerifyToken
    \/ RenewAccessToken
    \/ NewLoginPrompt
    \/ NewLoginExchange
    \/ HistoryGet
    \/ SaveToS3
    \/ MainSleep

Spec == Init /\ [][Next]_vars

\* ------------------------------------------- the freshness check alone
\* _verify_valid_token applied to every token age from 0 to MaxAge seconds
InitFresh ==
    /\ pc = "verify"
    /\ entropy = 0
    /\ \E age \in 0..MaxAge : config = InitConfig(age)
    /\ raw_item = NoItem
    /\ InitRest

NextFresh == VerifyToken

SpecFresh == InitFresh /\ [][NextFresh]_vars

\* ------------------------------------------- the interactive login alone
\* _new_login run from every state 0..MaxSeed of the random source
InitLogin ==
    /\ pc = "login"
    /\ entropy \in 0..MaxSeed
    /\ config = InitConfig(0)
    /\ raw_item = NoItem
    /\ InitRest

NextLogin ==
    \/ NewLoginPrompt
    \/ NewLoginExchange

SpecLogin == InitLogin /\ [][NextLogin]_vars

\* ------------------------------------------------------- get_data alone
\* get_data is called by nothing in the program; it is run here on every
\* raw item of RawItems.
InitItem ==
    /\ pc = "item"
    /\ entropy = 0
    /\ config = InitConfig(0)
    /\ raw_item \in RawItems
    /\ InitRest

\* get_data, lines 201-227
GetData ==
    /\ pc = "item"
    /\ output_data' = get_data(raw_item)
    /\ IF output_data'.fault = None
       THEN /\ pc' = "item_done"
            /\ fault' = fault
       ELSE Raise(output_data'.fault)
    /\ UNCHANGED <<now, config, env_file, next_page, before, access_token,
                   renewed, data, resultado, s3, io, check, ret, raw_item,
                   login_vars>>

NextItem == GetData

SpecItem == InitItem /\ [][NextItem]_vars

\* ================================================================ claims

Last(log) == log[Len(log)]

\* the last interaction is a token request of one of `kinds`
LastIs(kinds) == io # <<>> /\ Last(io).kind \in kinds

\* ------------------------------------------------------------------- C1
\* C1 (as claimed): at second granularity, _verify_valid_token returns true
\* exactly when the token's age is at most 60 minutes.
C1_FreshIffWithin60Minutes ==
    (check.valid /\ check.frac = 0)
        => (check.result <=> check.age <= TokenMinutes * 60)

\* ------------------------------------------------------------------- C2
\* C2: a token-endpoint answer to renew_access_token whose status is not 200
\* makes it return None without raising, and leaves the tokens and the
\* timestamp unchanged in memory and in '.env'.
C2_RenewNon200LeavesTokens ==
    [][(pc = "renew" /\ Last(io').resp.status # HTTP_OK)
          => /\ renewed' = None
             /\ fault' = None
             /\ pc' # "fault"
             /\ config' = config
             /\ env_file' = env_file]_vars

C2_Witness ==
    /\ pc = "login"
    /\ LastIs({"refresh"})
    /\ Last(io).resp.status # HTTP_OK
    /\ renewed = None
    /\ env_file = config
    /\ config.access_token # "A0"

\* ------------------------------------------------------------------- C3
\* C3 (as claimed): after every token answer with status 200, to a renewal
\* or to an exchange, with or without a refresh_token field, '.env' holds
\* the answer's access_token, its refresh_token and the time of the update,
\* and the operation has returned that access_token.
C3_SuccessfulResponseStored ==
    (LastIs({"refresh", "exchange"}) /\ Last(io).resp.status = HTTP_OK)
        => /\ env_file.access_token = Last(io).resp.access_token
           /\ Last(io).resp.refresh_token # None
                => env_file.refresh_token = Last(io).resp.refresh_token
           /\ env_file.last_date_token = Last(io).at
           /\ pc = "get"
           /\ access_token = Last(io).resp.access_token

\* ------------------------------------------------------------------- C4
\* C4 (as claimed): the interactive flow is entered exactly after a renewal
\* answered with a non-200 status, and a renewal answered with 200 returns
\* the renewed access token with no interactive step.
C4_InteractiveIffRenewalFailed ==
    /\ \A i \in DOMAIN io :
         io[i].kind = "authorize"
            => i > 1 /\ io[i-1].kind = "refresh"
                     /\ io[i-1].resp.status # HTTP_OK
    /\ \A i \in DOMAIN io :
         (io[i].kind = "refresh" /\ io[i].resp.status # HTTP_OK)
            => IF i = Len(io) THEN pc = "login"
                              ELSE io[i+1].kind = "authorize"
    /\ (LastIs({"refresh"}) /\ Last(io).resp.status = HTTP_OK)
          => pc = "get" /\ access_token = Last(io).resp.access_token

\* ------------------------------------------------------------------- C5
\* exchange POSTs issued since the last refresh POST of the log
ExchangesSinceRefresh(log) ==
    Cardinality({i \in DOMAIN log :
                   /\ log[i].kind = "exchange"
                   /\ \A j \in DOMAIN log : log[j].kind = "refresh" => j < i})

\* C5: an exchange answered with a non-200 status raises: that call issued
\* exactly one exchange POST, no token is returned, the tokens in memory and
\* in '.env' are unchanged, and the process takes no further step (so no
\* history request and no write to a sink follows).
C5_ExchangeFailureIsFatal ==
    [][/\ (pc = "exchange" /\ Last(io').resp.status # HTTP_OK)
            => /\ pc' = "fault"
               /\ fault' = "Exception"
               /\ access_token' = access_token
               /\ config' = config
               /\ env_file' = env_file
               /\ ExchangesSinceRefresh(io') = 1
               /\ <<resultado, s3>>' = <<resultado, s3>>
       /\ (pc = "fault" /\ fault = "Exception") => FALSE]_vars

C5_Witness ==
    /\ pc = "fault"
    /\ fault = "Exception"
    /\ LastIs({"exchange"})
    /\ Last(io).resp.status # HTTP_OK
    /\ PagesServed > 0

\* ------------------------------------------------------------------- C6
RECURSIVE Pow10(_)
Pow10(k) == IF k = 0 THEN 1 ELSE 10 * Pow10(k - 1)

RECURSIVE WeightedSum(_, _)
WeightedSum(digits, i) ==
    IF i > Len(digits) THEN 0
    ELSE digits[i] * Pow10(Len(digits) - i) + WeightedSum(digits, i + 1)

\* the number a string of decimal digits denotes
DecimalValue(digits) == WeightedSum(digits, 1)

\* the call of get_tracks_history has just returned a page with items
ReturnedPage ==
    /\ pc = "returned"
    /\ LastIs({"history"})
    /\ Len(Last(io).resp.items) > 0

\* C6: when get_tracks_history returns for an answer with items, it returns
\* the integer value of cursors.before, resultado.json holds exactly the
\* answer's items, and the call made exactly one upload, whose body is
\* exactly the answer's items.
C6_PageReturnedAndStored ==
    /\ ReturnedPage
          => /\ ret = DecimalValue(Last(io).resp.cursor)
             /\ resultado.indent = 4
             /\ resultado.json = Last(io).resp.items
             /\ Len(s3) = PagesServed
             /\ Last(s3).Body.indent = 4
             /\ Last(s3).Body.json = Last(io).resp.items
    /\ pc = "s3" => Len(s3) = PagesServed - 1

C6_Witness ==
    /\ ReturnedPage
    /\ Len(Last(io).resp.items) = 2
    /\ ret = 9999000
    /\ PagesServed = 2

\* ------------------------------------------------------------------- C7
\* C7: an answer with zero items makes get_tracks_history return 0 (the
\* terminal signal) whatever the cursor; resultado.json is left as it was
\* and no upload is made.
C7_EmptyPageNoWrites ==
    [][(pc = "get" /\ Last(io').resp.has_items
                   /\ Len(Last(io').resp.items) = 0)
          => /\ ret' = 0
             /\ pc' = "returned"
             /\ fault' = None
             /\ resultado' = resultado
             /\ s3' = s3]_vars

C7_Witness ==
    /\ pc = "returned"
    /\ LastIs({"history"})
    /\ Len(Last(io).resp.items) = 0
    /\ Last(io).before = 1
    /\ resultado # NoFile
    /\ Len(s3) = 1

\* ------------------------------------------------------------------- C8
IsHistory(e) == e.kind = "history"

\* the history requests of the run, in order
HistoryRequests == SelectSeq(io, IsHistory)

\* C8 (as claimed): the first request's cursor is the start time in
\* milliseconds; each later request's `before` is the cursor returned for
\* the page before it; after a page with items the loop goes on; the loop
\* ends only after a page with zero items.
C8_LoopEndsOnlyOnEmptyPage ==
    /\ \A k \in DOMAIN HistoryRequests :
         HistoryRequests[k].before =
            IF k = 1 THEN StartTime * 1000
            ELSE DecimalValue(HistoryRequests[k-1].resp.cursor)
    /\ (pc = "while" /\ LastIs({"history"}))
          => (FalsyInt(next_page) <=> Len(Last(io).resp.items) = 0)
    /\ pc = "done"
          => LastIs({"history"}) /\ Len(Last(io).resp.items) = 0

\* ------------------------------------------------------------------- C9
\* the run ended through an empty page that followed n >= 1 pages with items
EndedAfterPages ==
    /\ pc = "done"
    /\ LastIs({"history"})
    /\ Len(Last(io).resp.items) = 0
    /\ PagesServed >= 1

\* C9: such a run made exactly n uploads, the k-th holding the k-th page,
\* under pairwise distinct keys, and resultado.json holds the n-th page.
C9_OneUploadPerPage ==
    EndedAfterPages
       => /\ Len(s3) = PagesServed
          /\ Len(HistoryRequests) = PagesServed + 1
          /\ \A k \in DOMAIN s3 :
               s3[k].Body.json = HistoryRequests[k].resp.items
          /\ \A j, k \in DOMAIN s3 : j # k => s3[j].Key # s3[k].Key
          /\ resultado.json = HistoryRequests[PagesServed].resp.items

C9_Witness ==
    /\ EndedAfterPages
    /\ PagesServed = 2
    /\ s3[2].Key[2] = s3[1].Key[2] + SleepSeconds

\* ------------------------------------------------------------------ C10
\* a history request has just been sent, after the freshness check `check`
JustFetched ==
    /\ LastIs({"history"})
    /\ pc \in {"s3", "returned", "fault"}

\* C10 (as claimed): the bearer of every history request is the stored
\* access token, and either that token was at most 60 minutes old at the
\* freshness check or it was obtained by the token request just before.
C10_BearerIsValid ==
    JustFetched
       => /\ Last(io).cred = config.access_token
          /\ \/ check.result /\ check.age <= TokenMinutes * 60
             \/ /\ ~check.result
                /\ Len(io) > 1
                /\ io[Len(io) - 1].kind \in {"refresh", "exchange"}
                /\ io[Len(io) - 1].resp.status = HTTP_OK
                /\ io[Len(io) - 1].resp.access_token = Last(io).cred

\* ------------------------------------------------------------------ C11
\* Every pending input and request is eventually answered: a step that can
\* be taken is eventually taken.
SpecFair == Spec /\ WF_vars(Next)

Stopped == pc \in {"done", "fault"}

\* the driver loop ended because the last page had zero items
EndedThroughEmptyPage ==
    /\ pc = "done"
    /\ LastIs({"history"})
    /\ Len(Last(io).resp.items) = 0

\* C11, the part that holds: with finitely many pages with items (MaxPages)
\* and every request answered, the process eventually stops.
C11_EventuallyStops == <>Stopped

\* C11 (as claimed): the process always ends, and a run that has ended
\* either completed the driver loop through an empty page or stopped in an
\* unhandled fault.
C11_EndsByEmptyPageOrFault ==
    \/ ENABLED Next
    \/ pc = "fault"
    \/ EndedThroughEmptyPage

\* ------------------------------------------------------------------ C12
\* base64url(SHA-256(verifier)) with the padding stripped
S256(verifier) == rstrip_eq(urlsafe_b64encode(sha256(verifier)))

\* C12: the code_verifier of every exchange POST is the verifier whose
\* S256 challenge, unpadded, was placed in the authorization URL shown just
\* before, with code_challenge_method S256; while the code is awaited the
\* stored verifier re-derives the challenge that was sent.
C12_VerifierMatchesChallenge ==
    /\ \A i \in DOMAIN io :
         io[i].kind = "exchange"
            => /\ i > 1
               /\ io[i-1].kind = "authorize"
               /\ io[i-1].cred.code_challenge_method = "S256"
               /\ io[i-1].cred.code_challenge
                     = S256(io[i].cred.code_verifier)
               /\ \A j \in DOMAIN io[i-1].cred.code_challenge :
                     io[i-1].cred.code_challenge[j] # 61
    /\ pc = "exchange"
          => Last(io).cred.code_challenge = S256(code_verifier)

C12_Witness ==
    /\ LastIs({"exchange"})
    /\ Last(io).resp.status = HTTP_OK
    /\ Len(Last(io).cred.code_verifier) = 43
    /\ Len(io[Len(io) - 1].cred.code_challenge) = 43
    /\ Last(io).cred.code_verifier # io[Len(io) - 1].cred.code_challenge
    /\ entropy = MaxSeed + 1

\* ------------------------------------------------------------------ C13
\* C13: get_data returns for every raw item that has the second album
\* image and the first album artist it reads; the record it returns for an
\* item whose context is null has type = "null" and playlist_url = "null",
\* and for an item with a context has that context's type and its external
\* spotify URL; both fields are always present and never empty.
C13_NullContextSentinel ==
    /\ (pc = "item_done" \/ (pc = "fault" /\ fault = "IndexError"))
          => /\ (Len(raw_item.track.album.images) >= 2
                 /\ Len(raw_item.track.album.artists) >= 1)
                    <=> pc = "item_done"
             /\ (pc = "fault") <=> (output_data.fault = "IndexError")
    /\ pc = "item_done"
          => /\ output_data.fault = None
             /\ {"type", "playlist_url"} \subseteq DOMAIN output_data.value
             /\ output_data.value.type # ""
             /\ output_data.value.playlist_url # ""
             /\ raw_item.context.is_none
                   => /\ output_data.value.type = "null"
                      /\ output_data.value.playlist_url = "null"
             /\ ~raw_item.context.is_none
                   => /\ output_data.value.type = raw_item.context.type
                      /\ output_data.value.playlist_url
                            = raw_item.context.external_urls.spotify

C13_Witness ==
    /\ pc = "item_done"
    /\ raw_item.context.is_none
    /\ output_data.value.type = "null"
    /\ output_data.value.playlist_url = "null"
    /\ output_data.value.image_album = "image2"

\* ------------------------------------------------------------------ C14
\* the history requests answered with a status other than 200
Non200History ==
    {i \in DOMAIN io : io[i].kind = "history"
                        /\ io[i].resp.status # HTTP_OK}

\* C14 (as claimed): a history answer whose status is not 200, whatever its
\* body, ends the run in a fault: the call returns no cursor, neither
\* resultado.json nor the bucket receives the answer's body, and no request
\* follows it.
C14_Non200HistoryIsFatal ==
    \A i \in Non200History :
        /\ i = Len(io)
        /\ pc = "fault"
        /\ io[i].resp.items # <<>>
              => /\ resultado.json # io[i].resp.items
                 /\ \A k \in DOMAIN s3 : s3[k].Body.json # io[i].resp.items

\* ------------------------------------------------------------------ C15
\* the upload of the page just fetched failed
UploadFailed == fault = "ClientError"

\* C15: every history request after the first carries the cursor of the
\* page before it, and that page is in the bucket (the k-th upload holds
\* the k-th page) and was in resultado.json before it was uploaded; when an
\* upload fails the process stops in a fault with nothing more it can do,
\* the bucket lacks that page, and resultado.json holds that page.
C15_NoAdvancePastUnstoredPage ==
    /\ \A k \in DOMAIN HistoryRequests :
         k > 1 => /\ HistoryRequests[k].before
                        = DecimalValue(HistoryRequests[k-1].resp.cursor)
                  /\ Len(s3) >= k - 1
                  /\ s3[k-1].Body.json = HistoryRequests[k-1].resp.items
    /\ pc = "s3"
          => /\ resultado.json = Last(io).resp.items
             /\ Len(s3) = PagesServed - 1
    /\ UploadFailed
          => /\ pc = "fault"
             /\ ~ENABLED Next
             /\ LastIs({"history"})
             /\ resultado.json = Last(io).resp.items
             /\ Len(s3) = PagesServed - 1
             /\ \A k \in DOMAIN s3 : s3[k].Body.json # Last(io).resp.items

C15_Witness ==
    /\ UploadFailed
    /\ PagesServed = 2
    /\ Len(s3) = 1
    /\ s3[1].Body.json = HistoryRequests[1].resp.items
    /\ resultado.json = HistoryRequests[2].resp.items
    /\ Last(io).before # StartTime * 1000

\* ------------------------------------------------------------------ C16
HistoryIdx == {i \in DOMAIN io : io[i].kind = "history"}

\* the last history request before position i of the log, 0 if none
PrevHistory(i) ==
    LET S == {j \in HistoryIdx : j < i}
    IN  IF S = {} THEN 0 ELSE CHOOSE j \in S : \A m \in S : m <= j

\* kinds of the interactions strictly between positions a and b of the log
KindsBetween(a, b) == [j \in 1..(b - a - 1) |-> io[a + j].kind]

\* the interactions of the call of get_tracks_history now running or, once
\* its GET is sent, of the call that follows
CallKinds == KindsBetween(PrevHistory(Len(io) + 1), Len(io) + 1)

\* the access token persisted last before position i of the log
StoredBefore(i) ==
    LET S == {j \in 1..(i - 1) : /\ io[j].kind \in {"refresh", "exchange"}
                                /\ io[j].resp.status = HTTP_OK}
    IN  IF S = {} THEN InitConfig(0).access_token
        ELSE io[CHOOSE j \in S : \A m \in S : m <= j].resp.access_token

\* C16: a call of get_tracks_history talks to the token endpoint only when
\* its freshness check failed: no token request when the check passed (and
\* it passes whenever the token is at most 60 minutes old), otherwise one
\* refresh POST and, only after a refused refresh, one prompt and one
\* exchange POST; every GET carries the access token persisted last, so a
\* fetch that follows a renewal and passes the check sends the renewed
\* token without a token request.
C16_TokenTrafficOnlyWhenStale ==
    /\ \A i \in HistoryIdx :
         LET kinds == KindsBetween(PrevHistory(i), i)
         IN  /\ kinds \in {<<>>, <<"refresh">>,
                           <<"refresh", "authorize", "exchange">>}
             /\ io[i].cred = StoredBefore(i)
             /\ kinds # <<>> => io[i-1].resp.status = HTTP_OK
             /\ Len(kinds) = 3 => io[i-3].resp.status # HTTP_OK
    /\ JustFetched
          => (check.result
                 <=> KindsBetween(PrevHistory(Len(io)), Len(io)) = <<>>)
    /\ (check.valid /\ check.age <= TokenMinutes * 60) => check.result
    /\ pc \in {"start", "while", "verify", "renew", "s3", "returned", "done"}
          => CallKinds = <<>>
    /\ pc = "renew" => ~check.result
    /\ pc = "login" => CallKinds = <<"refresh">>
    /\ pc = "exchange" => CallKinds = <<"refresh", "authorize">>
    /\ pc = "get"
          => /\ check.result <=> CallKinds = <<>>
             /\ check.result => access_token = env_file.access_token
             /\ access_token = StoredBefore(Len(io) + 1)
    /\ pc = "fault"
          => CallKinds \in {<<>>, <<"refresh">>,
                       <<"refresh", "authorize", "exchange">>}

C16_Witness ==
    /\ JustFetched
    /\ check.result
    /\ Len(io) >= 3
    /\ Len(HistoryRequests) = 2
    /\ io[Len(io) - 1].kind = "history"
    /\ io[Len(io) - 2].kind \in {"refresh", "exchange"}
    /\ Last(io).cred = io[Len(io) - 2].resp.access_token
    /\ Last(io).cred # InitConfig(0).access_token

\* ------------------------------------------------------------------ C17
\* the token requests answered with status 200
TokenGrants ==
    {i \in DOMAIN io : /\ io[i].kind \in {"refresh", "exchange"}
                       /\ io[i].resp.status = HTTP_OK}

\* the credential record the i-th interaction's answer amounts to
RecordOf(i) ==
    [access_token    |-> io[i].resp.access_token,
     refresh_token   |-> io[i].resp.refresh_token,
     last_date_token |-> io[i].at]

\* all three values are the initial ones, or all three are those of one
\* token answer
Whole(rec) ==
    \/ rec \in {InitConfig(age) : age \in InitAges}
    \/ \E i \in TokenGrants : rec = RecordOf(i)

\* the last token answer could not be stored
Unstorable ==
    /\ LastIs({"refresh", "exchange"})
    /\ Last(io).resp.status = HTTP_OK
    /\ Last(io).resp.refresh_token = None

\* C17: while the process has not faulted, the credential record in memory
\* equals the one in '.env', and it is whole: the initial record when no
\* token answer was stored, the record of the latest 200 token answer
\* otherwise.  '.env' is whole in every state, and a 200 token answer that
\* cannot be stored (no refresh_token) leaves '.env' as it was before it.
C17_CredentialRecordConsistent ==
    /\ Whole(env_file)
    /\ env_file.refresh_token # None
    /\ pc # "fault"
          => /\ config = env_file
             /\ IF TokenGrants = {}
                THEN config \in {InitConfig(age) : age \in InitAges}
                ELSE config = RecordOf(CHOOSE i \in TokenGrants :
                                          \A m \in TokenGrants : m <= i)
    /\ Unstorable
          => /\ pc = "fault"
             /\ env_file # RecordOf(Len(io))
             /\ env_file.access_token = StoredBefore(Len(io))

C17_Witness ==
    /\ pc = "returned"
    /\ LastIs({"history"})
    /\ Cardinality(TokenGrants) = 2
    /\ config = env_file
    /\ config = RecordOf(Len(io) - 1)
    /\ io[Len(io) - 1].kind = "exchange"

\* a 200 answer without refresh_token has just been refused by
\* _update_token: '.env' is the record of the renewal before it
C17_WitnessUnstorable ==
    /\ Unstorable
    /\ pc = "fault"
    /\ Cardinality(TokenGrants) = 2
    /\ env_file.access_token # InitConfig(0).access_token
    /\ config.access_token = Last(io).resp.access_token

====
